---------------------------- MODULE Spec2Model ----------------------------
(***************************************************************************)
(* A model of httpprobe.py: the iteration loop of __main__, spawn_workers, *)
(* the probe worker measure_times, the result queue q and the CSV sink.    *)
(*                                                                         *)
(* Bytes are one-character strings, byte strings are tuples of them.       *)
(* Elapsed times are integer ticks, TicksPerMs ticks to the millisecond;   *)
(* round(x, 3) of a time in seconds is its rounding to whole milliseconds. *)
(***************************************************************************)
EXTENDS Integers, Sequences, FiniteSets, TLC

(* ----------------------------- bounds --------------------------------- *)
MaxTargets == 2
MaxIter == 2
MaxRecv == 2
MaxElapsed == 1
TicksPerMs == 2

(* ------------------------ program constants ---------------------------- *)
ChunkSize == 4096

None == "None"
Hosts == {<<"a">>, <<"b">>}

\* line 119: the separator of the target list; line 120: the scheme prefix
Sep == <<";", " ">>
Scheme == <<"h", "t", "t", "p", ":", "/", "/">>
Slash == <<"/">>

csv_header ==
  <<"iter_number", "transaction_id", "datetime", "server", "http_request",
    "tcp_success", "tcp_time (msec)", "http_time (msec)", "total_time (msec)",
    "pagesize", "is_success">>

LowerMarker == <<"<", "/", "h", "t", "m", "l", ">">>
UpperMarker == <<"<", "/", "H", "T", "M", "L", ">">>

(* The chunks a peer can make recv return: a closed connection (b''), the *)
(* marker at offset 0, the marker further in, the upper-case marker, and  *)
(* the two halves of a marker split across a chunk boundary, and both     *)
(* markers in one chunk.                                                  *)
Chunks ==
  { c \in { <<>>,
            LowerMarker,
            <<"a">> \o LowerMarker,
            UpperMarker,
            <<"<", "/", "h", "t">>,
            <<"m", "l", ">">>,
            LowerMarker \o UpperMarker } : Len(c) <= ChunkSize }

(* --------------------------- pure helpers ------------------------------ *)
\* bytes.find(pat): the lowest 0-based offset of pat in s, or -1
MatchAt(s, pat, off) ==
  /\ off + Len(pat) <= Len(s)
  /\ \A j \in 1..Len(pat) : s[off + j] = pat[j]

Find(s, pat) ==
  IF \E off \in 0..Len(s) : MatchAt(s, pat, off)
    THEN CHOOSE off \in 0..Len(s) :
           /\ MatchAt(s, pat, off)
           /\ \A o2 \in 0..(off - 1) : ~MatchAt(s, pat, o2)
    ELSE -1

\* s[n:]
Drop(s, n) == SubSeq(s, n + 1, Len(s))

\* s.split(sep)
RECURSIVE Split(_, _)
Split(s, sep) ==
  LET pos == Find(s, sep)
  IN  IF pos = -1 THEN <<s>>
      ELSE <<SubSeq(s, 1, pos)>> \o Split(Drop(s, pos + Len(sep)), sep)

\* a strip that goes on to a second prefix
StripSchemeTwice(r) ==
  LET once == IF Find(r, Scheme) # -1 THEN Drop(r, Find(r, Scheme) + 7) ELSE r
  IN  IF Find(once, Scheme) # -1 THEN Drop(once, Find(once, Scheme) + 7) ELSE once

\* lines 120-124: one pass of the loop of prepare_urls
StripScheme(r) ==
  LET pos == Find(r, Scheme)
  IN  IF pos # -1 THEN Drop(r, pos + 7) ELSE r

\* lines 116-125
prepare_urls(rawstr) ==
  LET parts == Split(rawstr, Sep)
  IN  [j \in 1..Len(parts) |-> StripScheme(parts[j])]

\* the -s argument as typed: the targets separated by "; "
RECURSIVE Join(_, _)
Join(segs, sep) ==
  IF Len(segs) = 0 THEN <<>>
  ELSE IF Len(segs) = 1 THEN segs[1]
  ELSE segs[1] \o sep \o Join(Tail(segs), sep)

\* truth value of a Python int
Truthy(n) == n # 0

\* line 73: chunk.find(b'</html>') or chunk.find(b'</HTML>') != -1
MarkerFound(chunk) ==
  Truthy(Find(chunk, LowerMarker)) \/ Find(chunk, UpperMarker) # -1

\* round(t, 3) of t ticks, in milliseconds, ties to even
Round3(t) ==
  LET ms == t \div TicksPerMs
      r  == t % TicksPerMs
  IN  IF 2 * r < TicksPerMs THEN ms
      ELSE IF 2 * r > TicksPerMs THEN ms + 1
      ELSE IF ms % 2 = 0 THEN ms ELSE ms + 1

\* int(b) of a Python bool
BoolInt(b) == IF b THEN 1 ELSE 0

RECURSIVE Digits(_)
Digits(n) == IF n < 10 THEN <<n>> ELSE Digits(n \div 10) \o <<n % 10>>

\* threading.Thread(): the default name "Thread-N", N a process-wide counter
ThreadName(n) == <<"T", "h", "r", "e", "a", "d", "-">> \o Digits(n)

\* an id cut from the wrong end of the name
get_transaction_idPrefix(w) == SubSeq(w.name, 1, 7)

\* get_transaction_id: current_thread().getName()[7:]
get_transaction_id(w) == SubSeq(w.name, 8, Len(w.name))

CRLF == "\r\n"
\* lines 52-53
HttpRequest(server) ==
  <<"GET / HTTP/1.1", CRLF, "Host: ", server, CRLF,
    "User-Agent: Chrome/50.0.2661.102", CRLF, CRLF>>

\* http_request.replace('\r\n', '\\r\\n')
EscapeCRLF(req) ==
  [j \in 1..Len(req) |-> IF req[j] = CRLF THEN "\\r\\n" ELSE req[j]]

FailureMarker == <<None>>

\* result != [None] is false exactly for the one-element list [None]
IsFailureMarker(m) == Len(m) = 1 /\ m[1] = None

\* a total that leaves the HTTP time out
OutcomeTcpTotal(w) ==
  <<get_transaction_id(w), w.server, EscapeCRLF(HttpRequest(w.server)),
    BoolInt(w.is_tcp_success), Round3(w.tcp_time), Round3(w.http_time),
    Round3(w.tcp_time), w.pagesize, BoolInt(w.is_success),
    w.response>>

\* lines 80-82: the list put on the queue on the success path
Outcome(w) ==
  <<get_transaction_id(w), w.server, EscapeCRLF(HttpRequest(w.server)),
    BoolInt(w.is_tcp_success), Round3(w.tcp_time), Round3(w.http_time),
    Round3(w.tcp_time + w.http_time), w.pagesize, BoolInt(w.is_success),
    w.response>>

(* ------------------------------ state ---------------------------------- *)
VARIABLES
  raw,             \* params['urls']: the -s argument
  urls,            \* prepare_urls(params['urls']): the targets, in order
  iter_count,      \* params['iter_count']
  i,               \* the loop variable of line 165
  iter_start_time, \* line 166
  mainpc,          \* where the main thread is: setup, iter, start, join, drain, exit
  k,               \* index into threads of the start loop / the join loop
  threads,         \* every Thread object created so far; the last N are spawn_workers' list
  threadCounter,   \* threading's counter behind the names Thread-N
  q,               \* queue.Queue(), head first
  qBorn,           \* history: for each message of q, <<i, iter_start_time>> of its worker
  csv,             \* the rows of the output file, header first
  drained,         \* history: every message q.get returned, with where it came from
  now,             \* the wall clock, in drain timeouts elapsed
  peer             \* for each host probed, what the network and its server do to a probe

vars == <<raw, urls, iter_count, i, iter_start_time, mainpc, k, threads,
          threadCounter, q, qBorn, csv, drained, now, peer>>

N == Len(urls)

\* the threads of spawn_workers' list in iteration i are threads[Base + 1 .. Base + N]
Base == i * N
Current == (Base + 1)..(Base + N)

\* what the network and the server do to the probe of thread t
PeerOf(t) == peer[threads[t].server]

\* threading.Thread(target=measure_times, args=(u, iter_time)), not yet started
NewThread(u, n, born) ==
  [ name |-> ThreadName(n), server |-> u, pc |-> "new", born |-> born,
    sock |-> "unbound", closes |-> 0, unboundCloses |-> 0,
    sends |-> 0, recvs |-> 0,
    tcp_time |-> 0, http_time |-> 0, pagesize |-> 0,
    is_tcp_success |-> FALSE, is_success |-> FALSE, response |-> <<>>,
    chunks |-> <<>>,
    connect_result |-> "none", raised |-> "none", stage |-> "none",
    warning |-> "none", escaped |-> "none", emitted |-> <<>> ]

(* --------------------- measure_times: exception paths ------------------ *)
\* the except clauses of lines 85-102, in order
ExceptClauses == <<"gaierror", "timeout", "OSError", "socket.error">>

\* gaierror and timeout are subclasses of OSError; socket.error is OSError
IsInstance(exc, cls) == cls \in {"OSError", "socket.error"} \/ exc = cls

\* the first clause that matches
ClauseFor(exc) ==
  CHOOSE c \in 1..Len(ExceptClauses) :
    /\ IsInstance(exc, ExceptClauses[c])
    /\ \A d \in 1..(c - 1) : ~IsInstance(exc, ExceptClauses[d])

\* clauses 1-3 are client.close(); q.put([None]); logging.warning(...)
\* clause 4 is logging.warning(...) alone
ClosesAndPuts(c) == c \in {1, 2, 3}

\* a timeout handler that reports the partial measurements
HandlerPutPartial(w, c) == IF c = 2 THEN Outcome(w) ELSE FailureMarker

\* handlers that put the record as far as it got
HandlerPutOutcome(w, c) == Outcome(w)

\* lines 87, 92, 97: what a failure handler puts on the queue
HandlerPut(w, c) == FailureMarker

\* client.close(): closing a closed socket changes nothing
Close(w) == [w EXCEPT !.sock = "closed", !.closes = @ + 1]

\* exc raised in the try block at stage: the matching clause, then finally.
\* client.close() on the unbound local raises UnboundLocalError, in the
\* clause (which then puts and logs nothing) and again in finally.
Handle(w, exc, stage) ==
  LET c == ClauseFor(exc) IN
  IF w.sock = "unbound"
    THEN [w EXCEPT !.pc = "done", !.raised = exc, !.stage = stage,
                   !.unboundCloses = @ + (IF ClosesAndPuts(c) THEN 2 ELSE 1),
                   !.warning = IF ClosesAndPuts(c) THEN "none" ELSE ExceptClauses[c],
                   !.escaped = "UnboundLocalError"]
    ELSE LET body == IF ClosesAndPuts(c)
                       THEN [Close(w) EXCEPT !.emitted = Append(@, HandlerPut(w, c))]
                       ELSE w
         IN  [Close(body) EXCEPT !.pc = "done", !.raised = exc, !.stage = stage,
                                 !.warning = ExceptClauses[c]]

(* ----------------------- measure_times: the steps ---------------------- *)
\* lines 47-55: socket.socket() either returns or raises OSError
CreateStep(w, ok) ==
  IF ok THEN [w EXCEPT !.pc = "connect", !.sock = "open"]
        ELSE Handle(w, "OSError", "create")

ConnectResults == {"ok", "gaierror", "timeout", "OSError"}
IOResults == {"ok", "timeout", "OSError"}

\* a failed name lookup that goes unnoticed
ReturnsOrUnresolved(res) == res \in {"ok", "gaierror"}

\* does the call return normally
Returns(res) == res = "ok"

\* lines 59-63
ConnectStep(w, res, e) ==
  IF Returns(res)
    THEN [w EXCEPT !.pc = "send", !.connect_result = res,
                   !.is_tcp_success = TRUE, !.tcp_time = e]
    ELSE Handle([w EXCEPT !.connect_result = res], res, "connect")

\* lines 66-68
SendStep(w, res) ==
  IF Returns(res)
    THEN [w EXCEPT !.pc = "recv", !.sends = @ + 1]
    ELSE Handle([w EXCEPT !.sends = @ + 1], res, "send")

\* a success path that leaves without closing
EmitStepNoClose(w) ==
  [w EXCEPT !.pc = "done", !.emitted = Append(@, Outcome(w))]

\* lines 77-83 and finally: put the outcome, close the socket
EmitStep(w) ==
  [Close(w) EXCEPT !.pc = "done", !.emitted = Append(@, Outcome(w))]

\* lines 69-76: one pass of the read loop, e the time since the send
RecvStep(w, res, chunk, e) ==
  IF Returns(res)
    THEN LET r == [w EXCEPT !.recvs = @ + 1,
                            !.pagesize = @ + Len(chunk),
                            !.response = @ \o chunk,
                            !.chunks = Append(@, chunk)]
         IN  IF MarkerFound(chunk)
               THEN EmitStep([r EXCEPT !.http_time = e, !.is_success = TRUE])
               ELSE r
    ELSE Handle([w EXCEPT !.recvs = @ + 1], res, "recv")

(* ---------------------------- the queue -------------------------------- *)
\* everything w2 put that w had not: q.put appends to the tail
Puts(w, w2) == SubSeq(w2.emitted, Len(w.emitted) + 1, Len(w2.emitted))

WorkerMoves(t, w2) ==
  /\ threads' = [threads EXCEPT ![t] = w2]
  /\ q' = q \o Puts(threads[t], w2)
  /\ qBorn' = qBorn \o [j \in 1..Len(Puts(threads[t], w2)) |-> threads[t].born]
  /\ UNCHANGED <<raw, urls, iter_count, i, iter_start_time, mainpc, k,
                 threadCounter, csv, drained, now, peer>>

(* ------------------------- worker actions ------------------------------ *)
CreateSocket(t) ==
  /\ threads[t].pc = "started"
  /\ WorkerMoves(t, CreateStep(threads[t], PeerOf(t).create))

Connect(t) ==
  /\ threads[t].pc = "connect"
  /\ WorkerMoves(t, ConnectStep(threads[t], PeerOf(t).connect, PeerOf(t).tcp_elapsed))

Send(t) ==
  /\ threads[t].pc = "send"
  /\ WorkerMoves(t, SendStep(threads[t], PeerOf(t).send))

\* recv returns the next chunk of the page; after the last one it raises,
\* or, from a peer that never stops, returns the last chunk again (the first
\* MaxRecv passes of the loop are followed)
Recv(t) ==
  /\ threads[t].pc = "recv"
  /\ LET w == threads[t]
         page == PeerOf(t).page
     IN  IF w.recvs < Len(page)
           THEN WorkerMoves(t, RecvStep(w, "ok", page[w.recvs + 1], PeerOf(t).http_elapsed))
           ELSE IF Returns(PeerOf(t).after)
             THEN /\ w.recvs < MaxRecv
                  /\ WorkerMoves(t, RecvStep(w, "ok", page[Len(page)], PeerOf(t).http_elapsed))
             ELSE WorkerMoves(t, RecvStep(w, PeerOf(t).after, <<>>, 0))

(* ----------------------- the main thread ------------------------------- *)
\* write_to_csv(out_csv, data): append one row
write_to_csv(rows, data) == Append(rows, data)

\* lines 157-163: the header truncates the file, the targets are normalised
Setup ==
  /\ mainpc = "setup"
  /\ csv' = write_to_csv(<<>>, csv_header)
  /\ urls' = prepare_urls(raw)
  /\ mainpc' = "iter"
  /\ UNCHANGED <<raw, iter_count, i, iter_start_time, k, threads,
                 threadCounter, q, qBorn, drained, now, peer>>

\* line 166 and the list comprehension of line 129
IterStart ==
  /\ mainpc = "iter"
  /\ iter_start_time' = now
  /\ threads' = threads \o
                  [j \in 1..N |-> NewThread(urls[j], threadCounter + j, <<i, now>>)]
  /\ threadCounter' = threadCounter + N
  /\ mainpc' = "start"
  /\ k' = 1
  /\ UNCHANGED <<raw, urls, iter_count, i, q, qBorn, csv, drained, now, peer>>

\* lines 130-131: thread.start()
StartThread ==
  /\ mainpc = "start"
  /\ threads' = [threads EXCEPT ![Base + k].pc = "started"]
  /\ IF k < N THEN k' = k + 1 /\ mainpc' = mainpc
              ELSE k' = 1 /\ mainpc' = "join"
  /\ UNCHANGED <<raw, urls, iter_count, i, iter_start_time, threadCounter,
                 q, qBorn, csv, drained, now, peer>>

\* a join that does not wait
JoinReturnsAtOnce(w) == TRUE

\* a join that waits for the thread to be running, not for its end
JoinReturnsOnStarted(w) == w.pc # "new"

\* thread.join() returns once the thread has ended
JoinReturns(w) == w.pc = "done"

\* lines 132-133, then lines 168-169
JoinThread ==
  /\ mainpc = "join"
  /\ JoinReturns(threads[Base + k])
  /\ IF k < N THEN k' = k + 1 /\ mainpc' = mainpc
              ELSE k' = 1 /\ mainpc' = "drain"
  /\ UNCHANGED <<raw, urls, iter_count, i, iter_start_time, threads,
                 threadCounter, q, qBorn, csv, drained, now, peer>>

\* lines 173-175
Label(result, iter, start) ==
  IF ~IsFailureMarker(result)
    THEN LET r1 == <<iter>> \o result
         IN  SubSeq(r1, 1, 2) \o <<start>> \o SubSeq(r1, 3, Len(r1))
    ELSE result

\* a drain loop that writes the row inside the if
ForwardOutcomesOnly(rows, result, iter, start) ==
  IF IsFailureMarker(result) THEN rows
  ELSE write_to_csv(rows, Label(result, iter, start))

\* lines 173-176: what one pass of the drain loop does to the file
Forward(rows, result, iter, start) ==
  write_to_csv(rows, Label(result, iter, start))

\* lines 172-177: q.get returned a message
DrainGet ==
  /\ mainpc = "drain"
  /\ q # <<>>
  /\ q' = Tail(q)
  /\ qBorn' = Tail(qBorn)
  /\ csv' = Forward(csv, Head(q), i, iter_start_time)
  /\ drained' = Append(drained, [msg |-> Head(q), born |-> Head(qBorn),
                                  pulledIn |-> i, pulledStart |-> iter_start_time])
  /\ UNCHANGED <<raw, urls, iter_count, i, iter_start_time, mainpc, k, threads,
                 threadCounter, now, peer>>

\* a get that gives up while a message is still waiting
GetRaisesEmptyEarly(queue) == Len(queue) <= 1

\* line 172: q.get(timeout=iter_time) raises queue.Empty only when no message
\* has come, and after the join none can come
GetRaisesEmpty(queue) == queue = <<>>

\* a loop that runs once more than asked
LoopContinuesInclusive(next, count) == next <= count

\* line 165: range(iter_count) has a next value
LoopContinues(next, count) == next < count

\* lines 179-180 and 165: q.get timed out on the empty queue
DrainEmpty ==
  /\ mainpc = "drain"
  /\ GetRaisesEmpty(q)
  /\ i' = i + 1
  /\ mainpc' = IF LoopContinues(i + 1, iter_count) THEN "iter" ELSE "exit"
  /\ now' = now + 1
  /\ UNCHANGED <<raw, urls, iter_count, iter_start_time, k, threads,
                 threadCounter, q, qBorn, csv, drained, peer>>

(* ------------------------- the environment ----------------------------- *)
\* What happens to every probe of one host: whether socket() succeeds, how
\* connect and send end, the chunks recv returns in order, how recv ends once
\* they are used up, and the two elapsed times the worker measures.
Script(create, connect, send, page, after, te, he) ==
  [ create |-> create, connect |-> connect, send |-> send, page |-> page,
    after |-> after, tcp_elapsed |-> te, http_elapsed |-> he ]

NoSocket     == Script(FALSE, "OSError", "OSError", <<>>, "OSError", 0, 0)
Unresolvable == Script(TRUE, "gaierror", "OSError", <<>>, "OSError", 0, 0)
Silent       == Script(TRUE, "ok", "ok", <<>>, "timeout", 1, 0)
OnePage      == Script(TRUE, "ok", "ok", << <<"a">> \o LowerMarker >>, "timeout", 1, 1)

\* the peers of the runs with several targets and iterations
RunScripts == {NoSocket, Unresolvable, Silent, OnePage}

Pages == UNION { [1..n -> Chunks] : n \in 0..MaxRecv }

\* the peers of the runs of a single probe: every failure at every step and
\* every page of up to MaxRecv chunks
ProbeScripts ==
  {NoSocket}
  \cup { Script(TRUE, c, "OSError", <<>>, "OSError", 0, 0) :
           c \in ConnectResults \ {"ok"} }
  \cup { Script(TRUE, "ok", s, <<>>, "OSError", te, 0) :
           s \in IOResults \ {"ok"}, te \in 0..MaxElapsed }
  \cup { Script(TRUE, "ok", "ok", pg, a, te, he) :
           pg \in Pages, a \in IOResults \ {"ok"},
           te \in 0..MaxElapsed, he \in 0..MaxElapsed }

\* the peers that answer every recv within the timeout: a page, and then a
\* timeout, an error, or the last chunk over and over
StreamScripts ==
  { Script(TRUE, "ok", "ok", pg, a, 0, 0) :
      pg \in Pages \ {<<>>}, a \in IOResults }

\* the elapsed times of the runs that measure: 0 to a few milliseconds
TimingTicks == 0..(2 * TicksPerMs * (MaxElapsed + 1))

\* the peers of the runs that measure: a page at once, after every pair of delays
TimingScripts ==
  { Script(TRUE, "ok", "ok", OnePage.page, "timeout", te, he) :
      te \in TimingTicks, he \in TimingTicks }

(* --------------------------- specification ----------------------------- *)
\* a target typed bare and a target typed with its scheme
RunSegments == {<<"a">>, Scheme \o <<"b">>}

TargetLists ==
  UNION { [1..n -> RunSegments] : n \in 1..MaxTargets }

\* the hosts a run of the -s argument r probes
HostsOf(r) == {prepare_urls(r)[j] : j \in 1..Len(prepare_urls(r))}

\* what the wall clock reads at startup: no iteration index comes near it
Epoch == MaxIter + 1

Start ==
  /\ i = 0
  /\ iter_start_time = Epoch
  /\ mainpc = "setup"
  /\ urls = <<>>
  /\ k = 1
  /\ threads = <<>>
  /\ threadCounter = 0
  /\ q = <<>>
  /\ qBorn = <<>>
  /\ csv = <<>>
  /\ drained = <<>>
  /\ now = Epoch

\* a whole run: up to MaxTargets targets, up to MaxIter iterations
Init ==
  /\ raw \in {Join(segs, Sep) : segs \in TargetLists}
  /\ iter_count \in 1..MaxIter
  /\ peer \in [HostsOf(raw) -> RunScripts]
  /\ Start

\* a single probe against every peer
ProbeInit ==
  /\ raw \in Hosts
  /\ iter_count = 1
  /\ peer \in [HostsOf(raw) -> ProbeScripts]
  /\ Start

\* the segments typed after -s: a host, a URL, a URL with a path, a URL
\* after other text, a URL inside a URL, nothing
UrlSegments ==
  { <<"a">>, Scheme \o <<"a">>, Scheme \o <<"a">> \o Slash \o <<"p">>,
    <<"x">> \o Scheme \o <<"a">>, Scheme \o Scheme \o <<"a">>, <<>> }

UrlSegLists ==
  UNION { [1..n -> UrlSegments] : n \in 1..MaxTargets }

\* the name server knows the hosts and nothing else
Resolver(h) == IF h \in Hosts THEN OnePage ELSE Unresolvable

\* one iteration over every list of segments
UrlInit ==
  /\ raw \in {Join(segs, Sep) : segs \in UrlSegLists}
  /\ iter_count = 1
  /\ peer = [h \in HostsOf(raw) |-> Resolver(h)]
  /\ Start

\* the lists typed in the runs followed to their end: one host over and
\* over, or a host and a URL in turn
LiveTargetLists ==
  UNION { { [j \in 1..n |-> <<"a">>],
            [j \in 1..n |-> IF j % 2 = 1 THEN <<"a">> ELSE Scheme \o <<"b">>] } :
          n \in 1..MaxTargets }

\* a whole run in which every host behaves alike
LiveInit ==
  /\ raw \in {Join(segs, Sep) : segs \in LiveTargetLists}
  /\ iter_count \in 1..MaxIter
  /\ peer \in {[h \in HostsOf(raw) |-> s] : s \in RunScripts}
  /\ Start

\* a single probe of a peer that may never stop sending
StreamInit ==
  /\ raw \in Hosts
  /\ iter_count = 1
  /\ peer \in [HostsOf(raw) -> StreamScripts]
  /\ Start

\* a single successful probe under every pair of delays
TimingInit ==
  /\ raw \in Hosts
  /\ iter_count = 1
  /\ peer \in [HostsOf(raw) -> TimingScripts]
  /\ Start

Next ==
  \/ Setup
  \/ IterStart
  \/ StartThread
  \/ JoinThread
  \/ DrainGet
  \/ DrainEmpty
  \/ \E t \in 1..Len(threads) : CreateSocket(t)
  \/ \E t \in 1..Len(threads) : Connect(t)
  \/ \E t \in 1..Len(threads) : Send(t)
  \/ \E t \in 1..Len(threads) : Recv(t)

Spec == Init /\ [][Next]_vars

ProbeSpec == ProbeInit /\ [][Next]_vars

TimingSpec == TimingInit /\ [][Next]_vars

UrlSpec == UrlInit /\ [][Next]_vars

\* a probe of a peer that may never stop sending, every thread scheduled
StreamSpec == StreamInit /\ [][Next]_vars /\ WF_vars(Next)

\* the whole run with every thread scheduled: some enabled step is taken
LiveSpec == LiveInit /\ [][Next]_vars /\ WF_vars(Next)

(* ------------------------------ claims --------------------------------- *)
Threads == 1..Len(threads)
Done(t) == threads[t].pc = "done"
Contains(s, pat) == Find(s, pat) # -1
HasMarker(chunk) == Contains(chunk, LowerMarker) \/ Contains(chunk, UpperMarker)

RECURSIVE PutCount(_)
PutCount(S) ==
  IF S = {} THEN 0
  ELSE LET t == CHOOSE x \in S : TRUE
       IN  Len(threads[t].emitted) + PutCount(S \ {t})

\* the rows of the file that are not the header, and those that carry fields
Rows == 2..Len(csv)
DataRows == { r \in Rows : ~IsFailureMarker(csv[r]) }
DrainedOutcomes == { d \in 1..Len(drained) : ~IsFailureMarker(drained[d].msg) }
DrainedMarkers == { d \in 1..Len(drained) : IsFailureMarker(drained[d].msg) }

\* C1: every worker that has ended has put exactly one message on the queue,
\* whatever path it took, so once spawn_workers has returned the queue has
\* received exactly one message per target for this iteration.
C1_OneMessagePerWorker ==
  /\ \A t \in Threads : Len(threads[t].emitted) <= 1
  /\ \A t \in Threads : Done(t) => Len(threads[t].emitted) = 1
  /\ mainpc = "drain" => PutCount(Current) = N

\* C2 as stated: every message pulled in iteration i was put by a worker
\* spawned in iteration i, and its row carries i and that iteration's start
\* time.
C2_EveryPulledMessageLabelled ==
  \A d \in 1..Len(drained) :
    /\ drained[d].born = <<drained[d].pulledIn, drained[d].pulledStart>>
    /\ Len(csv[d + 1]) >= 3
    /\ csv[d + 1][1] = drained[d].pulledIn
    /\ csv[d + 1][3] = drained[d].pulledStart

\* C2 amended: every message pulled in iteration i was put by a worker
\* spawned in iteration i; a ProbeOutcome is forwarded with i and that
\* iteration's start time inserted, a FailureMarker is forwarded as it is.
C2_NoCrossIterationDrain ==
  \A d \in 1..Len(drained) :
    /\ drained[d].born = <<drained[d].pulledIn, drained[d].pulledStart>>
    /\ d + 1 <= Len(csv)
    /\ IF IsFailureMarker(drained[d].msg)
         THEN csv[d + 1] = FailureMarker
         ELSE /\ Len(csv[d + 1]) = Len(drained[d].msg) + 2
              /\ csv[d + 1][1] = drained[d].born[1]
              /\ csv[d + 1][3] = drained[d].born[2]
              /\ csv[d + 1][2] = drained[d].msg[1]
              /\ SubSeq(csv[d + 1], 4, Len(csv[d + 1]))
                   = SubSeq(drained[d].msg, 2, Len(drained[d].msg))

\* the second iteration pulled an outcome after the first pulled one too
C2_Witness ==
  /\ \E d \in DrainedOutcomes : drained[d].pulledIn = 1
  /\ \E d \in DrainedOutcomes : drained[d].pulledIn = 0
  /\ N = 2

\* C3: spawn_workers starts every worker before it joins any, the drain
\* begins only when every worker of the iteration has ended, and no step
\* taken during a drain appends to the queue.
C3_JoinBeforeDrain ==
  /\ [](mainpc = "join" => \A t \in Current : threads[t].pc # "new")
  /\ [](mainpc = "drain" => \A t \in Current : Done(t))
  /\ [][mainpc = "drain" => Len(q') <= Len(q)]_vars

\* a drain of two messages has pulled the first
C3_Witness ==
  /\ mainpc = "drain"
  /\ N = 2
  /\ Len(q) = 1
  /\ \E d \in 1..Len(drained) : drained[d].pulledIn = i

\* C4: an outcome with is_success = 1 is put only by a worker one of whose
\* received chunks held a completion marker.
C4_SuccessOnlyWithMarker ==
  \A t \in Threads :
    \A e \in 1..Len(threads[t].emitted) :
      LET m == threads[t].emitted[e] IN
      (~IsFailureMarker(m) /\ m[9] = 1)
        => \E c \in 1..Len(threads[t].chunks) : HasMarker(threads[t].chunks[c])

\* the peer never responds: connect succeeded and the first recv timed out
NeverAnswered(t) ==
  /\ Done(t)
  /\ threads[t].connect_result = "ok"
  /\ threads[t].raised = "timeout"
  /\ threads[t].stage = "recv"
  /\ threads[t].chunks = <<>>

\* C5 as stated: such a worker yields an outcome with tcp_connected = true,
\* http_success = false and http_time = 0.
C5_PartialOutcomeOnSilence ==
  \A t \in Threads :
    NeverAnswered(t) =>
      /\ Len(threads[t].emitted) = 1
      /\ ~IsFailureMarker(threads[t].emitted[1])
      /\ threads[t].emitted[1][4] = 1
      /\ threads[t].emitted[1][9] = 0
      /\ threads[t].emitted[1][6] = 0

\* C5 amended: such a worker ends with is_tcp_success true, is_success
\* false and http_time 0, and what it puts on the queue is the FailureMarker.
C5_FailureMarkerOnSilence ==
  \A t \in Threads :
    NeverAnswered(t) =>
      /\ threads[t].emitted = <<FailureMarker>>
      /\ threads[t].is_tcp_success
      /\ ~threads[t].is_success
      /\ threads[t].http_time = 0

C5_Witness == \E t \in Threads : NeverAnswered(t) /\ threads[t].tcp_time > 0

\* C6: once a received chunk holds a completion marker, at whatever offset,
\* that chunk is the last one read and the worker has put a ProbeOutcome with
\* is_success = 1 and tcp_success = 1.
C6_StopsAtMarkerChunk ==
  \A t \in Threads :
    \A c \in 1..Len(threads[t].chunks) :
      HasMarker(threads[t].chunks[c]) =>
        /\ c = Len(threads[t].chunks)
        /\ Len(threads[t].emitted) = 1
        /\ ~IsFailureMarker(threads[t].emitted[1])
        /\ threads[t].emitted[1][9] = 1
        /\ threads[t].emitted[1][4] = 1
        /\ threads[t].http_time = PeerOf(t).http_elapsed

\* C7: a worker whose connect raised gaierror has put the FailureMarker and
\* has called neither send nor recv.
C7_UnresolvedNeverSends ==
  \A t \in Threads :
    threads[t].connect_result = "gaierror" =>
      /\ threads[t].sends = 0
      /\ threads[t].recvs = 0
      /\ Done(t) => threads[t].emitted = <<FailureMarker>>

C7_Witness ==
  \E t \in Threads : threads[t].connect_result = "gaierror" /\ Done(t)

\* C8 as stated: a FailureMarker adds no row, so the rows appended are as
\* many as the outcomes drained that are not FailureMarkers.
C8_RowsEqualOutcomes == Cardinality(Rows) = Cardinality(DrainedOutcomes)

\* C8 amended: every message drained appends one row, a FailureMarker the
\* one-field row [None]; the rows that carry fields are as many as the
\* outcomes drained that are not FailureMarkers.
C8_RowPerMessage ==
  /\ Cardinality(Rows) = Len(drained)
  /\ \A d \in DrainedMarkers : csv[d + 1] = FailureMarker
  /\ Cardinality(DataRows) = Cardinality(DrainedOutcomes)

\* a run has ended having drained a FailureMarker and an outcome
C8_Witness ==
  /\ mainpc = "exit"
  /\ DrainedMarkers # {}
  /\ DrainedOutcomes # {}

\* C9: every row that carries fields has as many fields as the header.
C9_RowsMatchHeader ==
  \A r \in DataRows : Len(csv[r]) = Len(csv_header)

\* C10: a worker whose socket() call failed logs a warning and makes no
\* attempt to close a socket, and no worker ends with an exception that
\* nothing caught.
C10_NoEscapeBeforeSocket ==
  \A t \in Threads :
    /\ threads[t].escaped = "none"
    /\ threads[t].stage = "create" =>
         /\ threads[t].warning # "none"
         /\ threads[t].unboundCloses = 0

\* the outcomes a thread has put
Outcomes(t) ==
  { e \in 1..Len(threads[t].emitted) : ~IsFailureMarker(threads[t].emitted[e]) }

\* C11: in every outcome put on the queue, the total_time emitted is within
\* one millisecond (1e-3 s) of the tcp_time emitted plus the http_time
\* emitted, each of the three rounded on its own.
C11_TotalWithinTolerance ==
  \A t \in Threads :
    \A e \in Outcomes(t) :
      LET m == threads[t].emitted[e]
          d == m[7] - (m[5] + m[6])
      IN  d <= 1 /\ -d <= 1

\* an outcome whose rounded total is not the sum of the rounded parts
C11_Witness ==
  \E t \in Threads :
    \E e \in Outcomes(t) :
      LET m == threads[t].emitted[e]
      IN  m[7] < m[5] + m[6] /\ m[6] > 0

\* the lists of segments that were typed as raw
Typed == { segs \in UrlSegLists : Join(segs, Sep) = raw }

StartsWith(s, pat) == Len(s) >= Len(pat) /\ SubSeq(s, 1, Len(pat)) = pat

\* C12: prepare_urls returns one host per "; "-separated segment, in input
\* order with duplicates kept; a segment that begins with http:// loses that
\* one occurrence and keeps any later one, and a segment without http:// is
\* returned unchanged.
C12_OneHostPerSegment ==
  mainpc # "setup" =>
    \A segs \in Typed :
      /\ Len(urls) = Len(segs)
      /\ \A j \in 1..Len(segs) :
            /\ StartsWith(segs[j], Scheme) => urls[j] = Drop(segs[j], Len(Scheme))
            /\ ~Contains(segs[j], Scheme) => urls[j] = segs[j]

\* the same URL inside a URL typed twice: two equal targets, each keeping
\* its second http://
C12_Witness ==
  /\ mainpc # "setup"
  /\ Len(urls) = 2
  /\ urls[1] = urls[2]
  /\ StartsWith(urls[1], Scheme)
  /\ \E segs \in Typed : StartsWith(segs[1], Scheme \o Scheme)

\* C13: every target produced by prepare_urls is a bare host: neither the
\* scheme nor a path is left in it.
C13_TargetsAreBareHosts ==
  mainpc # "setup" =>
    \A j \in 1..Len(urls) : ~Contains(urls[j], Slash)

\* the messages pulled in iteration j, and the threads created in it
PulledIn(j) == { d \in 1..Len(drained) : drained[d].pulledIn = j }
BornIn(j) == { t \in Threads : threads[t].born[1] = j }

\* C14: the drain of an iteration ends only on the empty queue: whenever an
\* iteration is complete (the next one about to spawn, or the run over) the
\* queue holds no message and every message put during each finished
\* iteration has been pulled once; no message is ever lost or pulled twice.
C14_DrainEndsOnEmptyQueue ==
  /\ Len(drained) + Len(q) = PutCount(Threads)
  /\ mainpc \in {"iter", "exit"} =>
        /\ q = <<>>
        /\ \A j \in 0..(i - 1) : Cardinality(PulledIn(j)) = PutCount(BornIn(j))

\* the second iteration is about to spawn after the first pulled two messages
C14_Witness ==
  /\ mainpc = "iter"
  /\ i = 1
  /\ Cardinality(PulledIn(0)) = 2
  /\ q = <<>>

\* iterations are numbered in order, each with one worker per target
C15_Iterations ==
  /\ i <= iter_count
  /\ \A t \in Threads :
        /\ threads[t].born[1] = (t - 1) \div N
        /\ threads[t].born[1] < iter_count
        /\ threads[t].born[1] <= i
        /\ threads[t].server = urls[((t - 1) % N) + 1]
        /\ threads[t].pc # "new" =>
              \A u \in Threads :
                threads[u].born[1] < threads[t].born[1] =>
                  /\ Done(u)
                  /\ \A d \in 1..Len(qBorn) : qBorn[d][1] >= threads[t].born[1]
  /\ mainpc = "exit" =>
        /\ i = iter_count
        /\ Len(threads) = iter_count * N
        /\ \A j \in 0..(iter_count - 1) : Cardinality(BornIn(j)) = N

\* C15: the run ends, after exactly iter_count iterations numbered
\* 0..iter_count-1 in order; each iteration starts one worker per entry of
\* the target list, duplicates included, none of them before the previous
\* iteration was complete (its workers ended and its messages pulled).
C15_RunEndsAfterIterCount == []C15_Iterations /\ <>(mainpc = "exit")

\* the run is over after two iterations over the same target listed twice
C15_Witness ==
  /\ mainpc = "exit"
  /\ iter_count = 2
  /\ Len(urls) = 2
  /\ urls[1] = urls[2]
  /\ Len(threads) = 4

C17_SocketClosedOnExit ==
  \A t \in Threads :
    /\ (Done(t) /\ threads[t].sock # "unbound") =>
          threads[t].sock = "closed" /\ threads[t].closes >= 1
    /\ threads[t].closes >= 1 => threads[t].sock = "closed"

\* a worker that never connected ended with its socket closed twice
C17_Witness ==
  \E t \in Threads :
    /\ Done(t)
    /\ ~threads[t].is_tcp_success
    /\ threads[t].closes = 2
    /\ threads[t].sock = "closed"

\* what every thread name begins with
NamePrefix == <<"T", "h", "r", "e", "a", "d", "-">>

\* C18: two workers of one iteration that emit an outcome attach different
\* transaction ids, and each id is what follows "Thread-" in the name of the
\* worker's own thread.
C18_DistinctTransactionIds ==
  \A t \in Threads :
    \A e \in Outcomes(t) :
      /\ NamePrefix \o threads[t].emitted[e][1] = threads[t].name
      /\ \A u \in BornIn(threads[t].born[1]) \ {t} :
            \A f \in Outcomes(u) :
              threads[u].emitted[f][1] # threads[t].emitted[e][1]

\* two workers of the second iteration have each emitted an outcome
C18_Witness ==
  \E t \in BornIn(1) :
    \E u \in BornIn(1) \ {t} :
      Outcomes(t) # {} /\ Outcomes(u) # {}

=============================================================================
